---- MODULE Spec2Model ----
(***************************************************************************)
(* A model of repo_dumper.py: list_files, build_tree, dump_repo and        *)
(* restore_repo.                                                            *)
(*                                                                          *)
(* Text is a sequence of characters.  Three literals of the program are    *)
(* kept as one character each: "FENCE" is CODE_BLOCK_MARKER (the twelve    *)
(* backticks), "MARK" is FILE_NAME_MARKER ("###### File: ") and "BIN" is   *)
(* the placeholder "[Binary file content skipped]".  "LF", "CR" and "SP"   *)
(* are the line feed, the carriage return and the space.                   *)
(***************************************************************************)
EXTENDS Integers, Sequences, FiniteSets, TLC

VARIABLES
  pc,                 \* position of the running operation
  input_exists,       \* restore_repo: input_file.is_file()
  userInput,          \* restore_repo: what input() returned (<<>> before the prompt)
  disk,               \* the file system: absolute path -> content of a regular file
  dirs,               \* the file system: the directories (absolute paths)
  current_file_path,  \* restore_repo: <<>> is None, <<p>> is the Path p
  content_buffer,     \* restore_repo: the lines of the block being read
  state,              \* restore_repo: 0, 1 or 2
  inside_code_block,  \* restore_repo
  line_num,           \* restore_repo: the number of lines consumed
  ref,                \* the records of the document read so far (see RefStep)
  log,                \* the messages printed so far (a set of records)
  files,              \* build_tree: the paths given (each a sequence of segments)
  tree,               \* build_tree: the nested dictionary, as a map from the path of
                      \*   an entry to "file" (None) or "dir" (a dictionary)
  tree_i,             \* build_tree: the number of paths inserted so far
  gitignore_loaded,   \* list_files: gitignore_spec is not None
  items,              \* list_files: the paths rglob has still to yield
  seen,               \* list_files: what was found of each path rglob yielded
  file_list,          \* list_files
  all_files,          \* the list list_files returned
  repo,               \* dump_repo: the files under repo_path, path -> file
  text_files,         \* dump_repo
  binary_files,       \* dump_repo
  dump_i,             \* dump_repo: the position of the running loop in its list
  out,                \* dump_repo: the text written to output_file so far
  records,            \* dump_repo: the content blocks written so far
  lines               \* restore_repo: f.readlines() of the document dump_repo wrote

restoreVars == <<pc, input_exists, userInput, disk, dirs, current_file_path,
                 content_buffer, state, inside_code_block, line_num, ref, log>>

treeVars == <<files, tree, tree_i>>

listVars == <<gitignore_loaded, items, seen, file_list, all_files>>

dumpVars == <<repo, text_files, binary_files, dump_i, out, records, lines>>

vars == <<restoreVars, treeVars, listVars, dumpVars>>

----------------------------------------------------------------------------
(* Bounds of the model *)

\* restore_repo reads documents of at most MaxLines lines
MaxLines == 6
\* ... and of at most MaxSkipLines lines where the records are followed (SpecSkip)
MaxSkipLines == 8
\* build_tree is given at most MaxFiles paths
MaxFiles == 3

----------------------------------------------------------------------------
(* Program constants *)

BINARY_CHUNK_SIZE == 1024
\* a block of a document read by restore_repo holds at most MaxPayload payload lines
MaxPayload == 2

CODE_BLOCK_MARKER == <<"FENCE">>
FILE_NAME_MARKER == <<"MARK">>
BINARY_PLACEHOLDER == <<"BIN">>

----------------------------------------------------------------------------
(* Strings *)

Whitespace == {"SP", "LF", "CR"}

\* str.startswith
StartsWith(s, t) == Len(s) >= Len(t) /\ SubSeq(s, 1, Len(t)) = t

\* str.endswith
EndsWith(s, t) == Len(s) >= Len(t) /\ SubSeq(s, Len(s) - Len(t) + 1, Len(s)) = t

\* t in s
Contains(s, t) == \E i \in 1..(Len(s) - Len(t) + 1) : SubSeq(s, i, i + Len(t) - 1) = t

RECURSIVE LStrip(_)
LStrip(s) == IF s # <<>> /\ Head(s) \in Whitespace THEN LStrip(Tail(s)) ELSE s

RECURSIVE RStrip(_)
RStrip(s) ==
  IF s # <<>> /\ s[Len(s)] \in Whitespace THEN RStrip(SubSeq(s, 1, Len(s) - 1)) ELSE s

\* str.strip
Strip(s) == RStrip(LStrip(s))

\* "".join(list)
RECURSIVE Join(_)
Join(ss) == IF ss = <<>> THEN <<>> ELSE Head(ss) \o Join(Tail(ss))

\* str.split("/"): the pieces between the slashes
RECURSIVE SplitSlash(_)
SplitSlash(s) ==
  IF s = <<>> THEN << <<>> >>
  ELSE LET rest == SplitSlash(Tail(s)) IN
       IF Head(s) = "/" THEN << <<>> >> \o rest
       ELSE << <<Head(s)>> \o Head(rest) >> \o Tail(rest)

----------------------------------------------------------------------------
(* Paths (pathlib) *)

\* Path(s): an anchor (absolute or not) and the parts; empty and "." pieces are dropped
Path(s) ==
  [absolute |-> s # <<>> /\ Head(s) = "/",
   parts    |-> SelectSeq(SplitSlash(s), LAMBDA seg : seg # <<>> /\ seg # <<".">>)]

\* The destination root, as an absolute path (the sequence of its segments)
output_dir == << <<"o", "u", "t">> >>

\* output_dir / p: an absolute p replaces the left operand
JoinPath(base, p) == IF p.absolute THEN p.parts ELSE base \o p.parts

\* Path.parent of an absolute path (the root is its own parent)
Parent(full) == IF full = <<>> THEN <<>> ELSE SubSeq(full, 1, Len(full) - 1)

\* The non-root prefixes of an absolute path, the path included
Prefixes(full) == {SubSeq(full, 1, n) : n \in 1..Len(full)}

IsUnder(full, root) == StartsWith(full, root)

\* full.parent.mkdir(parents=True, exist_ok=True): fails when a prefix is a regular file
MkdirFails(d, full) == \E p \in Prefixes(Parent(full)) : p \in DOMAIN d
MkdirDirs(ds, full) == ds \cup Prefixes(Parent(full))

\* full.open('w'): fails when the path is a directory
OpenFails(ds, full) == full = <<>> \/ full \in ds

\* The function f with x mapped to v
Put(f, x, v) == [y \in DOMAIN f \cup {x} |-> IF y = x THEN v ELSE f[y]]

Msg(kind, arg) == [kind |-> kind, arg |-> arg]

\* str(Path) of a relative path given by its parts
RECURSIVE JoinSlash(_)
JoinSlash(parts) ==
  IF parts = <<>> THEN <<>>
  ELSE IF Len(parts) = 1 THEN Head(parts)
  ELSE Head(parts) \o <<"/">> \o JoinSlash(Tail(parts))

----------------------------------------------------------------------------
(* build_tree *)

\* (changed: a file entry replaces the directory entry it meets)
InsertFileOverDir(tl, at) == [tl EXCEPT !.tree = Put(@, at, "file")]

\* The last part of a path: the entry becomes a file unless it is a directory
InsertFile(tl, at) ==
  IF at \in DOMAIN tl.tree /\ tl.tree[at] = "dir"
  THEN [tl EXCEPT !.log = @ \cup {Msg("warn_file_conflicts_with_dir", JoinSlash(at))}]
  ELSE [tl EXCEPT !.tree = Put(@, at, "file")]

\* A part before the last: the entry becomes a directory, over a file if need be
InsertDir(tl, at) ==
  IF at \notin DOMAIN tl.tree
  THEN [tl EXCEPT !.tree = Put(@, at, "dir")]
  ELSE IF tl.tree[at] = "file"
  THEN [tl EXCEPT !.tree = Put(@, at, "dir"),
                  !.log = @ \cup {Msg("warn_dir_overwrites_file", JoinSlash(at))}]
  ELSE tl

\* The loop over the parts of file_path, from part i on
RECURSIVE InsertFrom(_, _, _)
InsertFrom(tl, file_path, i) ==
  IF i > Len(file_path) THEN tl
  ELSE LET at == SubSeq(file_path, 1, i)
           is_file == (i = Len(file_path))
       IN IF is_file THEN InsertFile(tl, at)
          ELSE LET t1 == InsertDir(tl, at) IN
               IF at \in DOMAIN t1.tree /\ t1.tree[at] = "dir"
               THEN InsertFrom(t1, file_path, i + 1)
               ELSE [t1 EXCEPT !.log = @ \cup {Msg("warn_cannot_traverse", JoinSlash(at))}]

\* build_tree(paths), with the messages it prints added to `messages`
RECURSIVE BuildTree(_, _)
BuildTree(tl, paths) ==
  IF paths = <<>> THEN tl
  ELSE BuildTree(InsertFrom(tl, Head(paths), 1), Tail(paths))

TreeIdle == files = <<>> /\ tree = <<>> /\ tree_i = 0

\* The paths build_tree is given in SpecTree
TREEPATHS ==
  { << <<"x">> >>, << <<"x">>, <<"y">> >>, << <<"x">>, <<"y">>, <<"z">> >>, << <<"y">> >> }

SeqsUpTo(S, n) == UNION {[1..k -> S] : k \in 0..n}

----------------------------------------------------------------------------
(* list_files *)

\* The code point of a character of a file name
Ord(c) ==
  CASE c = "." -> 46 [] c = "a" -> 97 [] c = "b" -> 98 [] c = "c" -> 99
    [] c = "d" -> 100 [] c = "g" -> 103 [] c = "i" -> 105 [] c = "t" -> 116

\* s < t for two strings
RECURSIVE StrLess(_, _)
StrLess(s, t) ==
  IF t = <<>> THEN FALSE
  ELSE IF s = <<>> THEN TRUE
  ELSE IF Head(s) = Head(t) THEN StrLess(Tail(s), Tail(t))
  ELSE Ord(Head(s)) < Ord(Head(t))

\* p < q for two paths: their parts compared in order
RECURSIVE PathLess(_, _)
PathLess(p, q) ==
  IF q = <<>> THEN FALSE
  ELSE IF p = <<>> THEN TRUE
  ELSE IF Head(p) = Head(q) THEN PathLess(Tail(p), Tail(q))
  ELSE StrLess(Head(p), Head(q))

\* sorted(list(set(l)))
RECURSIVE SortedSet(_)
SortedSet(S) ==
  IF S = {} THEN <<>>
  ELSE LET least == CHOOSE p \in S : \A q \in S \ {p} : PathLess(p, q)
       IN <<least>> \o SortedSet(S \ {least})
Range(l) == {l[i] : i \in 1..Len(l)}

DotGit == <<".", "g", "i", "t">>
HasPart(path, name) == \E i \in 1..Len(path) : path[i] = name

\* (changed: the .gitignore rules are asked before the include patterns)
ListedIgnoreFirst(path, found, loaded) ==
  IF found.is_output THEN FALSE
  ELSE IF ~found.is_file THEN FALSE
  ELSE IF HasPart(path, DotGit) THEN FALSE
  ELSE IF found.exclude THEN FALSE
  ELSE IF loaded /\ found.ignore THEN FALSE
  ELSE IF found.include THEN TRUE
  ELSE TRUE

\* One turn of the loop over rglob: whether the path is appended to file_list.
\* `found` holds what the file system and the three pattern sets say of it.
Listed(path, found, loaded) ==
  IF found.is_output THEN FALSE
  ELSE IF ~found.is_file THEN FALSE
  ELSE IF HasPart(path, DotGit) THEN FALSE
  ELSE IF found.exclude THEN FALSE
  ELSE IF found.include THEN TRUE
  ELSE IF loaded /\ found.ignore THEN FALSE
  ELSE TRUE

\* What may be found of a path
Findings ==
  [is_output : BOOLEAN, is_file : BOOLEAN, exclude : BOOLEAN, include : BOOLEAN,
   ignore : BOOLEAN]

\* The paths under the repository in SpecList
LISTPATHS ==
  { << <<"b">> >>, << <<"a">>, <<"c">> >>, << DotGit, <<"c">> >> }

ListIdle ==
  /\ gitignore_loaded = FALSE
  /\ items = {}
  /\ seen = <<>>
  /\ file_list = <<>>
  /\ all_files = <<>>

----------------------------------------------------------------------------
(* print_tree *)

Last(q) == q[Len(q)]

\* The entries of the dictionary found at `at`
Children(t, at) == {q \in DOMAIN t : Len(q) = Len(at) + 1 /\ SubSeq(q, 1, Len(at)) = at}

\* The sort key (isinstance(item[1], dict), item[0]): files first, then by name
EntryLess(t, q1, q2) ==
  IF (t[q1] = "dir") # (t[q2] = "dir") THEN t[q1] # "dir"
  ELSE StrLess(Last(q1), Last(q2))

RECURSIVE SortedEntries(_, _)
SortedEntries(t, S) ==
  IF S = {} THEN <<>>
  ELSE LET least == CHOOSE q \in S : \A r \in S \ {q} : EntryLess(t, q, r)
       IN <<least>> \o SortedEntries(t, S \ {least})

\* "TEE" is the connector of an entry that has a next sibling, "ELL" of the
\* last one; "BAR" is the vertical rule of the continuation indent
RECURSIVE PrintEntries(_, _, _)
PrintEntries(t, entries, prefix) ==
  IF entries = <<>> THEN <<>>
  ELSE LET q == Head(entries)
           is_last == Len(entries) = 1
           connector == IF is_last THEN <<"ELL">> ELSE <<"TEE">>
           extension == IF is_last THEN <<"SP", "SP", "SP", "SP">>
                        ELSE <<"BAR", "SP", "SP", "SP">>
       IN (IF t[q] = "file"
           THEN << prefix \o connector \o Last(q) >>
           ELSE << prefix \o connector \o Last(q) \o <<"/">> >>
                \o PrintEntries(t, SortedEntries(t, Children(t, q)), prefix \o extension))
          \o PrintEntries(t, Tail(entries), prefix)

PrintTree(t, prefix) == PrintEntries(t, SortedEntries(t, Children(t, <<>>)), prefix)

----------------------------------------------------------------------------
(* dump_repo *)

(* A file of the repository: `text` is what read_text returns (the decoded    *)
(* characters), `zero_at` the offset (from 1) of the first zero byte, 0 when  *)
(* it has none, and `unreadable` whether opening it raises IOError.           *)

\* is_binary: a zero byte in the first BINARY_CHUNK_SIZE bytes; False on IOError
is_binary(file) ==
  IF file.unreadable THEN FALSE
  ELSE file.zero_at # 0 /\ file.zero_at <= BINARY_CHUNK_SIZE

\* content.replace('\r\n', '\n').replace('\r', '\n'): the "\r" of each "\r\n"
\* goes, and every "\r" left becomes "\n"
Normalize(content) ==
  LET n == Len(content)
      chars == [i \in 1..n |->
                 [c |-> content[i],
                  crlf |-> content[i] = "CR" /\ i < n /\ content[i + 1] = "LF"]]
      kept == SelectSeq(chars, LAMBDA e : ~e.crlf)
  IN [i \in 1..Len(kept) |-> IF kept[i].c = "CR" THEN "LF" ELSE kept[i].c]

\* (changed: the text is written as read, line endings and last line untouched)
TextPayloadRaw(file) ==
  IF file.unreadable THEN <<"ERR", "LF">> ELSE file.text

\* (changed: a read error leaves the block without payload line)
TextPayloadSilent(file) ==
  IF file.unreadable THEN <<>>
  ELSE LET content == Normalize(file.text) IN
       IF content # <<>> /\ ~EndsWith(content, <<"LF">>)
       THEN content \o <<"LF">> ELSE content

\* What dump_repo writes between the fences of a text file ("ERR" is the
\* message "Error reading file: ...")
TextPayload(file) ==
  IF file.unreadable THEN <<"ERR", "LF">>
  ELSE LET content == Normalize(file.text) IN
       IF content # <<>> /\ ~EndsWith(content, <<"LF">>)
       THEN content \o <<"LF">> ELSE content

BinaryPayload == BINARY_PLACEHOLDER \o <<"LF">>

\* PurePath.suffix of a file name: from the last dot, unless it leads or ends the name
RECURSIVE RFind(_, _)
RFind(name, c) ==
  IF name = <<>> THEN 0
  ELSE IF name[Len(name)] = c THEN Len(name)
  ELSE RFind(SubSeq(name, 1, Len(name) - 1), c)

Suffix(name) ==
  LET i == RFind(name, ".") IN
  IF 1 < i /\ i < Len(name) THEN SubSeq(name, i, Len(name)) ELSE <<>>

\* extension[1:] if extension else ''
LangIdentifier(relative_path) ==
  LET extension == Suffix(Last(relative_path)) IN
  IF extension # <<>> THEN Tail(extension) ELSE <<>>

\* One content block: marker line, opening fence, payload, closing fence, blank line
Block(relative_path, payload) ==
  FILE_NAME_MARKER \o JoinSlash(relative_path) \o <<"LF">>
  \o CODE_BLOCK_MARKER \o LangIdentifier(relative_path) \o <<"LF">>
  \o payload
  \o CODE_BLOCK_MARKER \o <<"LF", "LF">>

\* "\n".join(lines)
RECURSIVE JoinLF(_)
JoinLF(ls) ==
  IF ls = <<>> THEN <<>>
  ELSE IF Len(ls) = 1 THEN Head(ls)
  ELSE Head(ls) \o <<"LF">> \o JoinLF(Tail(ls))

repo_name == <<"r">>

\* The document down to the contents header ("TITLE" is "# Repository: ",
\* "TREE_HEADER" and "CONTENT_HEADER" are the two section headers)
Header(t) ==
  <<"TITLE">> \o repo_name \o <<"LF", "LF">>
  \o <<"TREE_HEADER", "LF">>
  \o CODE_BLOCK_MARKER \o <<"LF">>
  \o <<"/">> \o repo_name \o <<"/", "LF">>
  \o JoinLF(PrintTree(t, <<"SP", "SP", "SP", "SP">>))
  \o <<"LF">> \o CODE_BLOCK_MARKER \o <<"LF", "LF">>
  \o <<"CONTENT_HEADER", "LF", "LF">>

\* Reading in text mode: "\r\n" and "\r" arrive as "\n"; readlines() cuts after each
SplitLines(s) ==
  LET n == Len(s)
      ends == SelectSeq([i \in 1..n |-> i], LAMBDA i : s[i] = "LF" \/ i = n)
  IN [k \in 1..Len(ends) |->
        SubSeq(s, IF k = 1 THEN 1 ELSE ends[k - 1] + 1, ends[k])]

ReadLines(text) == SplitLines(Normalize(text))

DumpIdle ==
  /\ repo = <<>>
  /\ text_files = <<>>
  /\ binary_files = <<>>
  /\ dump_i = 0
  /\ out = <<>>
  /\ records = <<>>
  /\ lines = <<>>

----------------------------------------------------------------------------
(* restore_repo *)

\* str(Path)
PathStr(p) ==
  IF p.absolute THEN <<"/">> \o JoinSlash(p.parts)
  ELSE IF p.parts = <<>> THEN <<".">> ELSE JoinSlash(p.parts)

\* str.lower
LowerChar(c) ==
  CASE c = "Y" -> "y" [] c = "N" -> "n" [] c = "E" -> "e" [] c = "S" -> "s" [] OTHER -> c
Lower(s) == [i \in 1..Len(s) |-> LowerChar(s[i])]

\* (changed: every answer but "n" lets the removal go on)
ProceedsUnlessNo(answer) == Lower(Strip(answer)) # <<"n">>

\* The answers that let restore_repo remove an existing destination
ProceedAnswers == {<<>>, <<"t", "r", "u", "e">>, <<"y">>, <<"y", "e", "s">>}
Proceeds(answer) == Lower(Strip(answer)) \in ProceedAnswers

\* shutil.rmtree(root): the root and everything under it is gone
RmtreeDisk(d, root) == [p \in {q \in DOMAIN d : ~IsUnder(q, root)} |-> d[p]]
RmtreeDirs(ds, root) == {q \in ds : ~IsUnder(q, root)}

\* The marker test of the scanner: a line that, stripped, starts with the fence
IsFenceLine(line) == StartsWith(Strip(line), CODE_BLOCK_MARKER)

IsMarkerLine(line) == StartsWith(line, FILE_NAME_MARKER)

\* line[len(FILE_NAME_MARKER):].strip()
MarkerPath(line) == Strip(SubSeq(line, Len(FILE_NAME_MARKER) + 1, Len(line)))

\* ".." in relative_path_str
IsUnsafe(relative_path_str) == Contains(relative_path_str, <<".", ".">>)

\* file_content.strip() == "[Binary file content skipped]"
IsPlaceholder(file_content) == Strip(file_content) = BINARY_PLACEHOLDER

\* The file system and the log after a content block of `path` closes on `buffer`
Finalize(fs, path, buffer) ==
  LET full_output_path == JoinPath(output_dir, path)
      file_content == Join(buffer)
      name == PathStr(path)
  IN IF IsPlaceholder(file_content)
     THEN IF MkdirFails(fs.disk, full_output_path)
          THEN [fs EXCEPT !.log = @ \cup {Msg("skip_binary", name), Msg("error_placeholder", name)}]
          ELSE [fs EXCEPT !.dirs = MkdirDirs(@, full_output_path),
                          !.log = @ \cup {Msg("skip_binary", name)}]
     ELSE IF MkdirFails(fs.disk, full_output_path)
          THEN [fs EXCEPT !.log = @ \cup {Msg("restoring", name), Msg("error_writing", name)}]
          ELSE IF OpenFails(MkdirDirs(fs.dirs, full_output_path), full_output_path)
          THEN [fs EXCEPT !.dirs = MkdirDirs(@, full_output_path),
                          !.log = @ \cup {Msg("restoring", name), Msg("error_writing", name)}]
          ELSE [fs EXCEPT !.dirs = MkdirDirs(@, full_output_path),
                          !.disk = Put(@, full_output_path, file_content),
                          !.log = @ \cup {Msg("restoring", name)}]

\* (changed: any opening fence starts a content block, whatever the state)
ScanFenceAnyBlock(s) ==
  IF ~s.inside_code_block
  THEN [s EXCEPT !.state = 2, !.inside_code_block = TRUE]
  ELSE IF s.state = 2
       THEN LET fs == IF s.current_file_path # <<>>
                      THEN Finalize(s.fs, s.current_file_path[1], s.content_buffer)
                      ELSE s.fs
            IN [s EXCEPT !.fs = fs,
                         !.current_file_path = <<>>,
                         !.content_buffer = <<>>,
                         !.state = 0,
                         !.inside_code_block = FALSE]
       ELSE [s EXCEPT !.inside_code_block = FALSE]

\* One turn of the loop over the lines: the scanner s after it consumed `line`
ScanFence(s) ==
  IF ~s.inside_code_block
  THEN [s EXCEPT !.state = IF @ = 1 THEN 2 ELSE @,
                 !.inside_code_block = TRUE]
  ELSE IF s.state = 2
       THEN LET fs == IF s.current_file_path # <<>>
                      THEN Finalize(s.fs, s.current_file_path[1], s.content_buffer)
                      ELSE s.fs
            IN [s EXCEPT !.fs = fs,
                         !.current_file_path = <<>>,
                         !.content_buffer = <<>>,
                         !.state = 0,
                         !.inside_code_block = FALSE]
       ELSE [s EXCEPT !.inside_code_block = FALSE]

ScanMarker(s, line) ==
  LET relative_path_str == MarkerPath(line) IN
  IF relative_path_str = <<>>
  THEN [s EXCEPT !.fs.log = @ \cup {Msg("warn_empty_path", <<>>)}]
  ELSE IF IsUnsafe(relative_path_str)
  THEN [s EXCEPT !.fs.log = @ \cup {Msg("warn_unsafe", relative_path_str)}]
  ELSE [s EXCEPT !.current_file_path = <<Path(relative_path_str)>>,
                 !.content_buffer = <<>>,
                 !.state = 1]

\* (changed: the lines met while the opening fence is awaited are kept too)
ScanStepBufferEarly(s, line) ==
  IF IsFenceLine(line) THEN ScanFence(s)
  ELSE IF s.state = 0
       THEN IF IsMarkerLine(line) THEN ScanMarker(s, line) ELSE s
  ELSE [s EXCEPT !.content_buffer = Append(@, line)]

ScanStep(s, line) ==
  IF IsFenceLine(line) THEN ScanFence(s)
  ELSE IF s.state = 0
       THEN IF IsMarkerLine(line) THEN ScanMarker(s, line) ELSE s
  ELSE IF s.state = 2
       THEN IF s.inside_code_block
            THEN [s EXCEPT !.content_buffer = Append(@, line)]
            ELSE s
  ELSE s

\* The messages after the loop
EndLog(s) ==
  (IF s.state # 0
   THEN {Msg("warn_ended", IF s.state = 1 THEN <<"1">> ELSE <<"2">>)} ELSE {})
  \cup (IF s.current_file_path # <<>>
        THEN {Msg("warn_incomplete", PathStr(s.current_file_path[1]))} ELSE {})

Scanner ==
  [state |-> state, inside_code_block |-> inside_code_block,
   current_file_path |-> current_file_path, content_buffer |-> content_buffer,
   fs |-> [disk |-> disk, dirs |-> dirs, log |-> log]]

SetScanner(s) ==
  /\ state' = s.state
  /\ inside_code_block' = s.inside_code_block
  /\ current_file_path' = s.current_file_path
  /\ content_buffer' = s.content_buffer
  /\ disk' = s.fs.disk
  /\ dirs' = s.fs.dirs
  /\ log' = s.fs.log

(* The records of a document, read as the format defines them: a marker line, *)
(* an opening fence, the payload lines, a closing fence.  A record whose      *)
(* marker line is malformed (empty or unsafe path) is a record all the same,  *)
(* and its block ends at its closing fence.  `done` holds the record the last *)
(* line completed, `seenSkip` whether a malformed marker was met so far.      *)
RefInit ==
  [state |-> 0, inside |-> FALSE, path |-> <<>>, buf |-> <<>>, skip |-> FALSE,
   seenSkip |-> FALSE, done |-> <<>>]

RefStep(r, line) ==
  LET q == [r EXCEPT !.done = <<>>] IN
  IF IsFenceLine(line)
  THEN IF ~q.inside
       THEN [q EXCEPT !.state = IF @ = 1 THEN 2 ELSE @, !.inside = TRUE]
       ELSE IF q.state = 2
            THEN [q EXCEPT !.state = 0, !.inside = FALSE, !.path = <<>>, !.buf = <<>>,
                           !.skip = FALSE,
                           !.done = IF q.skip THEN <<>>
                                    ELSE <<[path |-> q.path[1], payload |-> Join(q.buf)]>>]
            ELSE [q EXCEPT !.inside = FALSE]
  ELSE IF q.state = 0 /\ IsMarkerLine(line)
  THEN IF MarkerPath(line) = <<>> \/ IsUnsafe(MarkerPath(line))
       THEN [q EXCEPT !.state = 1, !.skip = TRUE, !.seenSkip = TRUE]
       ELSE [q EXCEPT !.state = 1, !.path = <<Path(MarkerPath(line))>>]
  ELSE IF q.state = 2 /\ q.inside
  THEN [q EXCEPT !.buf = Append(@, line)]
  ELSE q

\* The lines a document read by restore_repo is made of (readlines: each ends the line)
MarkerLine(path) == FILE_NAME_MARKER \o path \o <<"LF">>
LINES ==
  { CODE_BLOCK_MARKER \o <<"LF">>,
    MarkerLine(<<"a">>),
    MarkerLine(<<"a", "/", "b">>),
    MarkerLine(<<".", ".", "/", "a">>),
    MarkerLine(<<"/", "a">>),
    MarkerLine(<<"SP">>),
    <<"x", "LF">>,
    <<"LF">>,
    BINARY_PLACEHOLDER \o <<"LF">> }

\* What input() may return
RESPONSES ==
  { <<>>, <<"y">>, <<"Y", "E", "S", "SP">>, <<"t", "r", "u", "e">>,
    <<"n">>, <<"N", "o">>, <<"o", "k">> }

\* A file the destination holds before restore_repo runs
OldFile == output_dir \o << <<"o", "l", "d">> >>

RestoreInit ==
  /\ pc = "restore"
  /\ TreeIdle
  /\ ListIdle
  /\ DumpIdle
  /\ input_exists \in BOOLEAN
  /\ userInput = <<>>
  /\ \/ disk = <<>> /\ dirs = {}
     \/ disk = [p \in {OldFile} |-> <<"x", "LF">>] /\ dirs = {output_dir}
  /\ current_file_path = <<>>
  /\ content_buffer = <<>>
  /\ state = 0
  /\ inside_code_block = FALSE
  /\ line_num = 0
  /\ ref = RefInit
  /\ log = {}

\* restore_repo up to the loop: the checks, the prompt, the removal, mkdir
RestoreBegin(answer) ==
  /\ pc = "restore"
  /\ IF ~input_exists
     THEN /\ pc' = "done"
          /\ log' = log \cup {Msg("error_no_input", <<>>)}
          /\ UNCHANGED <<userInput, disk, dirs>>
     ELSE IF output_dir \in dirs
     THEN /\ userInput' = Lower(Strip(answer))
          /\ IF Proceeds(answer)
             THEN /\ disk' = RmtreeDisk(disk, output_dir)
                  /\ dirs' = RmtreeDirs(dirs, output_dir) \cup Prefixes(output_dir)
                  /\ log' = log \cup {Msg("warn_overwrite", <<>>)}
                  /\ pc' = "scan"
             ELSE /\ log' = log \cup {Msg("warn_overwrite", <<>>), Msg("cancelled", <<>>)}
                  /\ pc' = "done"
                  /\ UNCHANGED <<disk, dirs>>
     ELSE /\ dirs' = dirs \cup Prefixes(output_dir)
          /\ pc' = "scan"
          /\ UNCHANGED <<userInput, disk, log>>
  /\ UNCHANGED <<input_exists, current_file_path, content_buffer, state,
                 inside_code_block, line_num, ref>>
  /\ UNCHANGED <<treeVars, listVars, dumpVars>>

\* One line of the document goes through the loop
ScanLine(line, max) ==
  /\ pc = "scan"
  /\ line_num < max
  /\ (state = 2 /\ ~IsFenceLine(line)) => Len(content_buffer) < MaxPayload
  /\ SetScanner(ScanStep(Scanner, line))
  /\ line_num' = line_num + 1
  /\ UNCHANGED <<pc, input_exists, userInput>>
  /\ UNCHANGED <<treeVars, listVars, dumpVars>>

RestoreLine(line) == ScanLine(line, MaxLines) /\ UNCHANGED ref

\* (changed: the block left open at the end of the document is written)
RestoreEndFlush ==
  /\ pc = "scan"
  /\ LET fs == IF current_file_path # <<>>
               THEN Finalize(Scanner.fs, current_file_path[1], content_buffer)
               ELSE Scanner.fs
     IN /\ disk' = fs.disk
        /\ dirs' = fs.dirs
        /\ log' = fs.log \cup EndLog(Scanner)
  /\ pc' = "done"
  /\ UNCHANGED <<input_exists, userInput, current_file_path,
                 content_buffer, state, inside_code_block, line_num, ref>>
  /\ UNCHANGED <<treeVars, listVars, dumpVars>>

\* The document has no more lines
RestoreEnd ==
  /\ pc = "scan"
  /\ log' = log \cup EndLog(Scanner)
  /\ pc' = "done"
  /\ UNCHANGED <<input_exists, userInput, disk, dirs, current_file_path,
                 content_buffer, state, inside_code_block, line_num, ref>>
  /\ UNCHANGED <<treeVars, listVars, dumpVars>>

RestoreNext ==
  \/ \E answer \in RESPONSES : RestoreBegin(answer)
  \/ \E line \in LINES : RestoreLine(line)
  \/ RestoreEnd

SpecRestore == RestoreInit /\ [][RestoreNext]_vars

(* restore_repo on documents that hold malformed marker lines, with the records *)
(* of the document kept beside the scanner                                       *)
SKIPLINES ==
  { CODE_BLOCK_MARKER \o <<"LF">>,
    MarkerLine(<<"a">>),
    MarkerLine(<<"a", "/", "b">>),
    MarkerLine(<<".", ".", "/", "a">>),
    MarkerLine(<<"SP">>),
    <<"x", "LF">> }

SkipLine(line) == ScanLine(line, MaxSkipLines) /\ ref' = RefStep(ref, line)

SkipNext ==
  \/ \E answer \in RESPONSES : RestoreBegin(answer)
  \/ \E line \in SKIPLINES : SkipLine(line)
  \/ RestoreEnd

SpecSkip == RestoreInit /\ [][SkipNext]_vars

----------------------------------------------------------------------------
(* build_tree, one path of the list at a time *)

RestoreIdle ==
  /\ input_exists = FALSE
  /\ userInput = <<>>
  /\ disk = <<>> /\ dirs = {}
  /\ current_file_path = <<>>
  /\ content_buffer = <<>>
  /\ state = 0
  /\ inside_code_block = FALSE
  /\ line_num = 0
  /\ ref = RefInit

restoreData == <<input_exists, userInput, disk, dirs, current_file_path,
                 content_buffer, state, inside_code_block, line_num, ref>>

TreeInit ==
  /\ pc = "build_tree"
  /\ files \in SeqsUpTo(TREEPATHS, MaxFiles)
  /\ tree = <<>>
  /\ tree_i = 0
  /\ log = {}
  /\ RestoreIdle
  /\ ListIdle
  /\ DumpIdle

TreeInsert ==
  /\ pc = "build_tree"
  /\ tree_i < Len(files)
  /\ LET tl == InsertFrom([tree |-> tree, log |-> log], files[tree_i + 1], 1)
     IN tree' = tl.tree /\ log' = tl.log
  /\ tree_i' = tree_i + 1
  /\ UNCHANGED <<pc, files>>
  /\ UNCHANGED <<restoreData, listVars, dumpVars>>

TreeReturn ==
  /\ pc = "build_tree"
  /\ tree_i = Len(files)
  /\ pc' = "done"
  /\ UNCHANGED <<files, tree, tree_i, log>>
  /\ UNCHANGED <<restoreData, listVars, dumpVars>>

TreeNext == TreeInsert \/ TreeReturn

SpecTree == TreeInit /\ [][TreeNext]_vars

----------------------------------------------------------------------------
(* list_files, one path of rglob at a time *)

ListInit ==
  /\ pc = "list_files"
  /\ gitignore_loaded \in BOOLEAN
  /\ items = LISTPATHS
  /\ seen = <<>>
  /\ file_list = <<>>
  /\ all_files = <<>>
  /\ log = {}
  /\ RestoreIdle
  /\ TreeIdle
  /\ DumpIdle

ListVisit(item, found) ==
  /\ pc = "list_files"
  /\ item \in items
  /\ items' = items \ {item}
  /\ seen' = Put(seen, item, found)
  /\ file_list' = IF Listed(item, found, gitignore_loaded)
                  THEN Append(file_list, item) ELSE file_list
  /\ log' = IF found.is_output THEN log \cup {Msg("info_skipping_self", JoinSlash(item))}
            ELSE log
  /\ UNCHANGED <<pc, gitignore_loaded, all_files>>
  /\ UNCHANGED <<restoreData, treeVars, dumpVars>>

ListReturn ==
  /\ pc = "list_files"
  /\ items = {}
  /\ all_files' = SortedSet(Range(file_list))
  /\ pc' = "done"
  /\ UNCHANGED <<gitignore_loaded, items, seen, file_list, log>>
  /\ UNCHANGED <<restoreData, treeVars, dumpVars>>

ListNext ==
  \/ \E item \in LISTPATHS, found \in Findings : ListVisit(item, found)
  \/ ListReturn

SpecList == ListInit /\ [][ListNext]_vars

----------------------------------------------------------------------------
(* dump_repo, then restore_repo of the document into a fresh destination *)

TextFile(text) == [text |-> text, zero_at |-> 0, unreadable |-> FALSE]

\* The files a repository is made of in SpecDump
FILEKINDS ==
  { TextFile(<<>>),
    TextFile(<<"x">>),
    TextFile(<<"x", "LF">>),
    TextFile(<<"x", "CR", "LF", "e_acute", "CR">>),
    TextFile(CODE_BLOCK_MARKER \o <<"LF", "x", "LF">>),
    TextFile(FILE_NAME_MARKER \o <<"a", "LF">>),
    TextFile(BINARY_PLACEHOLDER),
    TextFile(<<"SP">> \o BINARY_PLACEHOLDER \o <<"LF">>),
    [text |-> <<"NUL">>, zero_at |-> 1, unreadable |-> FALSE],
    [text |-> <<"x", "NUL">>, zero_at |-> 1024, unreadable |-> FALSE],
    [text |-> <<"x", "NUL", "LF">>, zero_at |-> 1025, unreadable |-> FALSE],
    [text |-> <<"x", "LF">>, zero_at |-> 0, unreadable |-> TRUE] }

\* ... and their paths
DUMPPATHS ==
  { << <<"a">> >>, << <<"b">>, <<"c", ".", "t">> >>, << <<"d">> >> }

DumpInit ==
  /\ pc = "classify"
  /\ \E S \in SUBSET DUMPPATHS : repo \in [S -> FILEKINDS]
  /\ all_files = SortedSet(DOMAIN repo)
  /\ text_files = <<>>
  /\ binary_files = <<>>
  /\ dump_i = 0
  /\ out = <<>>
  /\ records = <<>>
  /\ lines = <<>>
  /\ log = {}
  /\ gitignore_loaded = FALSE /\ items = {} /\ seen = <<>> /\ file_list = <<>>
  /\ TreeIdle
  /\ RestoreIdle

listRest == <<gitignore_loaded, items, seen, file_list>>

\* One turn of the loop that separates text and binary files
DumpClassify ==
  /\ pc = "classify"
  /\ dump_i < Len(all_files)
  /\ LET relative_path == all_files[dump_i + 1] IN
     IF is_binary(repo[relative_path])
     THEN /\ binary_files' = Append(binary_files, relative_path)
          /\ UNCHANGED text_files
     ELSE /\ text_files' = Append(text_files, relative_path)
          /\ UNCHANGED binary_files
  /\ dump_i' = dump_i + 1
  /\ UNCHANGED <<pc, repo, all_files, out, records, lines, log>>
  /\ UNCHANGED <<restoreData, treeVars, listRest>>

\* build_tree, and the document down to the contents header
DumpHeader ==
  /\ pc = "classify"
  /\ dump_i = Len(all_files)
  /\ LET tl == BuildTree([tree |-> <<>>, log |-> log], all_files) IN
     /\ tree' = tl.tree
     /\ log' = tl.log
     /\ out' = Header(tl.tree)
  /\ files' = all_files
  /\ tree_i' = Len(all_files)
  /\ dump_i' = 0
  /\ pc' = "write"
  /\ UNCHANGED <<repo, all_files, text_files, binary_files, records, lines>>
  /\ UNCHANGED <<restoreData, listRest>>

\* One turn of the loop over text_files
DumpText ==
  /\ pc = "write"
  /\ dump_i < Len(text_files)
  /\ LET relative_path == text_files[dump_i + 1]
         payload == TextPayload(repo[relative_path])
     IN /\ out' = out \o Block(relative_path, payload)
        /\ records' = Append(records, [path |-> relative_path, payload |-> payload])
  /\ dump_i' = dump_i + 1
  /\ UNCHANGED <<pc, repo, all_files, text_files, binary_files, lines, log>>
  /\ UNCHANGED <<restoreData, treeVars, listRest>>

\* One turn of the loop over binary_files (dump_i counts on from the text files)
DumpBinary ==
  /\ pc = "write"
  /\ dump_i >= Len(text_files)
  /\ dump_i < Len(text_files) + Len(binary_files)
  /\ LET relative_path == binary_files[dump_i - Len(text_files) + 1]
     IN /\ out' = out \o Block(relative_path, BinaryPayload)
        /\ records' = Append(records, [path |-> relative_path, payload |-> BinaryPayload])
  /\ dump_i' = dump_i + 1
  /\ UNCHANGED <<pc, repo, all_files, text_files, binary_files, lines, log>>
  /\ UNCHANGED <<restoreData, treeVars, listRest>>

\* The document is closed
DumpReturn ==
  /\ pc = "write"
  /\ dump_i = Len(text_files) + Len(binary_files)
  /\ pc' = "dumped"
  /\ UNCHANGED <<repo, all_files, text_files, binary_files, dump_i, out, records, lines, log>>
  /\ UNCHANGED <<restoreData, treeVars, listRest>>

\* restore_repo of the document into a destination that does not exist: up to the loop
RoundTripBegin ==
  /\ pc = "dumped"
  /\ input_exists' = TRUE
  /\ dirs' = dirs \cup Prefixes(output_dir)
  /\ lines' = ReadLines(out)
  /\ pc' = "rt_scan"
  /\ UNCHANGED <<userInput, disk, current_file_path, content_buffer, state,
                 inside_code_block, line_num, ref, log>>
  /\ UNCHANGED <<repo, all_files, text_files, binary_files, dump_i, out, records>>
  /\ UNCHANGED <<treeVars, listRest>>

\* One line of the document goes through the loop
RoundTripLine ==
  /\ pc = "rt_scan"
  /\ line_num < Len(lines)
  /\ SetScanner(ScanStep(Scanner, lines[line_num + 1]))
  /\ line_num' = line_num + 1
  /\ UNCHANGED <<pc, input_exists, userInput, ref>>
  /\ UNCHANGED <<all_files, dumpVars, treeVars, listRest>>

\* After the last line
RoundTripEnd ==
  /\ pc = "rt_scan"
  /\ line_num = Len(lines)
  /\ log' = log \cup EndLog(Scanner)
  /\ pc' = "done"
  /\ UNCHANGED <<input_exists, userInput, disk, dirs, current_file_path,
                 content_buffer, state, inside_code_block, line_num, ref>>
  /\ UNCHANGED <<all_files, dumpVars, treeVars, listRest>>

DumpNext ==
  \/ DumpClassify
  \/ DumpHeader
  \/ DumpText
  \/ DumpBinary
  \/ DumpReturn
  \/ RoundTripBegin
  \/ RoundTripLine
  \/ RoundTripEnd

SpecDump == DumpInit /\ [][DumpNext]_vars

(* Both uses of the format: restore_repo on the documents dump_repo writes, and *)
(* restore_repo on documents made of any lines of LINES                        *)
CodecInit == DumpInit \/ RestoreInit
CodecNext == DumpNext \/ RestoreNext
SpecCodec == CodecInit /\ [][CodecNext]_vars

----------------------------------------------------------------------------
(* Claims about dump_repo and the round trip *)

Readable(path) == ~repo[path].unreadable
AllText == \A path \in DOMAIN repo : ~is_binary(repo[path]) /\ Readable(path)

\* C1: for a tree of readable files all classified Text, decoding the document
\* dump_repo wrote into a fresh destination gives back exactly the same relative
\* paths, each file holding its original content with CRLF and CR mapped to LF
\* (the newline dump_repo adds to a content that does not end with one is
\* allowed here).
C1_RoundTrip ==
  (pc = "done" /\ AllText) =>
     /\ DOMAIN disk = {output_dir \o path : path \in DOMAIN repo}
     /\ \A path \in DOMAIN repo :
          LET content == Normalize(repo[path].text) IN
          disk[output_dir \o path] \in {content, content \o <<"LF">>}

\* C5: every record of a file classified Binary (a zero byte within its first
\* 1024 bytes) has the placeholder line as payload; and when a content block
\* closes, no file is written if its payload is exactly the placeholder (the
\* bare string, or the placeholder line dump_repo writes), and a block with any
\* other payload is written verbatim to its path under the destination (or the
\* failed write is logged).
C5_ExactPlaceholderOnly ==
  /\ [](\A i \in 1..Len(records) :
          LET file == repo[records[i].path] IN
          (~file.unreadable /\ file.zero_at \in 1..1024)
             => records[i].payload = <<"BIN", "LF">>)
  /\ [][ (state = 2 /\ state' = 0 /\ current_file_path # <<>>) =>
        LET file_content == Join(content_buffer)
            full == JoinPath(output_dir, current_file_path[1])
        IN IF file_content \in {<<"BIN">>, <<"BIN", "LF">>}
           THEN disk' = disk
           ELSE \/ disk' = Put(disk, full, file_content)
                \/ /\ disk' = disk
                   /\ Msg("error_writing", PathStr(current_file_path[1])) \in log'
    ]_vars

RECURSIVE Blocks(_)
Blocks(rs) ==
  IF rs = <<>> THEN <<>> ELSE Block(Head(rs).path, Head(rs).payload) \o Blocks(Tail(rs))

\* C10: the contents section holds exactly one record per listed file, the
\* records of the Text files before those of the Binary files, each group in
\* ascending path order; the payload of a text file that cannot be read is the
\* error message, and every other record has the position and the payload its
\* own file gives it.
C10_RecordsInOrder ==
  pc \in {"dumped", "rt_scan", "done"} =>
    /\ Len(records) = Cardinality(DOMAIN repo)
    /\ {records[i].path : i \in 1..Len(records)} = DOMAIN repo
    /\ \A i \in 1..Len(records) : \A j \in (i + 1)..Len(records) :
          LET bi == is_binary(repo[records[i].path])
              bj == is_binary(repo[records[j].path])
          IN /\ bi => bj
             /\ (bi = bj) => PathLess(records[i].path, records[j].path)
    /\ \A i \in 1..Len(records) :
          LET file == repo[records[i].path] IN
          records[i].payload =
            IF file.unreadable THEN <<"ERR", "LF">>
            ELSE IF is_binary(file) THEN <<"BIN", "LF">>
            ELSE TextPayload([file EXCEPT !.unreadable = FALSE])
    /\ out = Header(tree) \o Blocks(records)

\* C10 witness: "a" could not be read, "b/c.t" is binary and "d" is text: the
\* records are those of "a" (the error message), "d" and "b/c.t"
C10_Witness ==
  /\ pc = "dumped"
  /\ records = << [path |-> << <<"a">> >>, payload |-> <<"ERR", "LF">>],
                  [path |-> << <<"d">> >>, payload |-> <<"x", "LF">>],
                  [path |-> << <<"b">>, <<"c", ".", "t">> >>, payload |-> <<"BIN", "LF">>] >>

\* The records of the files that were classified Text and could be read
TextRecords ==
  {i \in 1..Len(records) :
     ~is_binary(repo[records[i].path]) /\ Readable(records[i].path)}

NoLineEnd(text) == SelectSeq(text, LAMBDA c : c \notin {"CR", "LF"})

\* The character written just before the closing fence of a block
BeforeClosingFence(relative_path, payload) ==
  LET block == Block(relative_path, payload) IN
  block[Len(block) - Len(CODE_BLOCK_MARKER) - 2]

\* C11 (as claimed): the payload of every Text record holds no carriage return
\* and ends with a newline.
C11_EndsWithNewline ==
  \A i \in TextRecords :
     LET payload == records[i].payload IN
     /\ \A k \in 1..Len(payload) : payload[k] # "CR"
     /\ payload # <<>>
     /\ payload[Len(payload)] = "LF"

\* C11 (amended): the payload of every Text record whose file could be read is
\* the decoded text with every CRLF and every lone CR replaced by LF, followed
\* by a newline when the text is not empty and does not end with one: it holds
\* no carriage return, it is empty exactly when the text is empty and otherwise
\* ends with a newline, and the closing fence starts on a line of its own.
C11_NormalizedPayload ==
  \A i \in TextRecords :
     LET payload == records[i].payload
         text == repo[records[i].path].text
         content == Normalize(text)
     IN /\ \A k \in 1..Len(payload) : payload[k] # "CR"
        /\ payload \in {content, content \o <<"LF">>}
        /\ (payload = content \o <<"LF">>)
              <=> (content # <<>> /\ content[Len(content)] # "LF")
        /\ NoLineEnd(payload) = NoLineEnd(text)
        /\ (payload = <<>>) <=> (text = <<>>)
        /\ payload # <<>> => payload[Len(payload)] = "LF"
        /\ BeforeClosingFence(records[i].path, payload) = "LF"

\* C11 witness: an empty file, a file with no last newline, and a file with
\* CRLF and a last CR were dumped
C11_Witness ==
  /\ pc = "dumped"
  /\ records = << [path |-> << <<"a">> >>, payload |-> <<>>],
                  [path |-> << <<"b">>, <<"c", ".", "t">> >>,
                   payload |-> <<"x", "LF", "e_acute", "LF">>],
                  [path |-> << <<"d">> >>, payload |-> <<"x", "LF">>] >>
  /\ repo[<< <<"a">> >>].text = <<>>
  /\ repo[<< <<"b">>, <<"c", ".", "t">> >>].text = <<"x", "CR", "LF", "e_acute", "CR">>
  /\ repo[<< <<"d">> >>].text = <<"x">>

----------------------------------------------------------------------------
(* Claims about list_files *)

\* The rule of the specification that decides a regular file, first match first
Decision(path) ==
  CASE seen[path].is_output -> "excluded"
    [] HasPart(path, DotGit) -> "excluded"
    [] seen[path].exclude -> "excluded"
    [] seen[path].include -> "included"
    [] gitignore_loaded /\ seen[path].ignore -> "excluded"
    [] OTHER -> "included"

\* C6: the list list_files returns holds exactly the regular files the first
\* matching rule includes (output document, .git segment, exclude pattern,
\* include pattern, ignore pattern, else included); so a file matched by an
\* include and an ignore pattern (and by no earlier rule) is in it, a file
\* matched by an exclude and an include pattern is not; and the list is in
\* strictly ascending order, so sorted and free of duplicates.
C6_FirstMatchWins ==
  pc = "done" =>
    /\ Range(all_files) =
         {path \in DOMAIN seen : seen[path].is_file /\ Decision(path) = "included"}
    /\ \A path \in DOMAIN seen :
         /\ (seen[path].is_file /\ seen[path].include /\ seen[path].ignore
             /\ ~seen[path].exclude /\ ~seen[path].is_output /\ ~HasPart(path, DotGit))
               => path \in Range(all_files)
         /\ (seen[path].exclude /\ seen[path].include) => path \notin Range(all_files)
         /\ ~seen[path].is_file => path \notin Range(all_files)
    /\ \A i \in 1..(Len(all_files) - 1) : PathLess(all_files[i], all_files[i + 1])

\* C6 witness: "b" was met before "a/c"; "a/c", matched by an include and an
\* ignore pattern, is listed, and listed first
C6_Witness ==
  /\ pc = "done"
  /\ gitignore_loaded
  /\ file_list = << << <<"b">> >>, << <<"a">>, <<"c">> >> >>
  /\ seen[<< <<"a">>, <<"c">> >>].include /\ seen[<< <<"a">>, <<"c">> >>].ignore
  /\ all_files = << << <<"a">>, <<"c">> >>, << <<"b">> >> >>

----------------------------------------------------------------------------
(* Claims about build_tree *)

IsProperPrefix(p, q) == Len(p) < Len(q) /\ SubSeq(q, 1, Len(p)) = p
IsPrefix(p, q) == Len(p) <= Len(q) /\ SubSeq(q, 1, Len(p)) = p

Given == {files[i] : i \in 1..Len(files)}
\* The components the given paths name: each path and each prefix of it
Components == UNION {Prefixes(q) : q \in Given}
UsedAsFile(p) == p \in Given
UsedAsDir(p) == \E q \in Given : IsProperPrefix(p, q)
\* The last path of the list that names component p
LastUse(p) == CHOOSE i \in 1..Len(files) :
                 /\ IsPrefix(p, files[i])
                 /\ \A j \in (i + 1)..Len(files) : ~IsPrefix(p, files[j])

\* C8 (as claimed): in the tree build_tree returns, every component is what the
\* last path that names it makes of it: a file when that path ends there, a
\* directory when it goes on.
C8_LaterEntryWins ==
  pc = "done" =>
    \A p \in Components :
       /\ p \in DOMAIN tree
       /\ tree[p] = (IF files[LastUse(p)] = p THEN "file" ELSE "dir")

\* C8 (amended): no entry of the tree is a file with entries under it; in the tree
\* build_tree returns, a component some path uses as a directory is a
\* directory, whichever path came first (the file entry is overwritten when it
\* came first and dropped when it came later), every other component is a file;
\* and a diagnostic naming the component is printed for each component used
\* both ways, and for no other.
C8_DirectoryWins ==
  /\ \A p \in DOMAIN tree : \A q \in DOMAIN tree :
        IsProperPrefix(p, q) => tree[p] = "dir"
  /\ pc = "done" =>
       /\ DOMAIN tree = Components
       /\ \A p \in Components : tree[p] = (IF UsedAsDir(p) THEN "dir" ELSE "file")
       /\ \A p \in Components :
            (UsedAsFile(p) /\ UsedAsDir(p)) <=> (\E m \in log : m.arg = JoinSlash(p))

\* C8 witness: "x/y" then "x" were given; "x" stayed a directory and was reported
C8_Witness ==
  /\ pc = "done"
  /\ files = << << <<"x">>, <<"y">> >>, << <<"x">> >> >>
  /\ tree[<< <<"x">> >>] = "dir"
  /\ Msg("warn_file_conflicts_with_dir", <<"x">>) \in log

----------------------------------------------------------------------------
(* Claims about restore_repo *)

Restored(name) == output_dir \o <<name>>

\* C2: restore_repo never writes a file at a location outside the destination
\* root, whatever the document holds.
C2_NoWriteOutsideRoot == \A p \in DOMAIN disk : IsUnder(p, output_dir)

\* C3: once a marker line was skipped as malformed, every later well-formed
\* record of the document is still written to its own path with exactly its own
\* payload, whatever the skipped record's block holds (a record whose payload is
\* the placeholder, or whose write failed with a logged error, aside).
C3_SkippedMarkerHarmless ==
  (ref.seenSkip /\ ref.done # <<>>) =>
    LET rec == ref.done[1]
        full == JoinPath(output_dir, rec.path)
    IN (~IsPlaceholder(rec.payload) /\ Msg("error_writing", PathStr(rec.path)) \notin log)
       => (full \in DOMAIN disk /\ disk[full] = rec.payload)

\* C4: when the document ends in AwaitingFenceOpen or InContent, restore_repo
\* ends normally, warns naming the pending path, writes nothing for the pending
\* record and leaves every file on disk as it was; and a file, when its block
\* closed, got exactly the payload of that block.
C4_TruncatedDocument ==
  [][ /\ (pc = "scan" /\ pc' = "done" /\ state \in {1, 2}) =>
           /\ disk' = disk
           /\ dirs' = dirs
           /\ current_file_path # <<>>
           /\ Msg("warn_incomplete", PathStr(current_file_path[1])) \in log'
           /\ Msg("warn_ended", IF state = 1 THEN <<"1">> ELSE <<"2">>) \in log'
      /\ (pc = "scan" /\ pc' = "scan" /\ disk' # disk) =>
           /\ state = 2
           /\ current_file_path # <<>>
           /\ disk' = Put(disk, JoinPath(output_dir, current_file_path[1]),
                          Join(content_buffer))
    ]_vars

\* C4 witness: the document ended inside the block of "a/b" after "a" was restored
C4_Witness ==
  /\ pc = "done"
  /\ state = 2
  /\ content_buffer # <<>>
  /\ current_file_path = <<Path(<<"a", "/", "b">>)>>
  /\ Restored(<<"a">>) \in DOMAIN disk
  /\ Msg("warn_incomplete", <<"a", "/", "b">>) \in log

\* C7 (as claimed): an existing destination is removed only on an explicit
\* confirmation; by default, and on any other answer, the run is cancelled with
\* nothing removed, created or written.
ExplicitConfirmations == {<<"y">>, <<"y", "e", "s">>, <<"t", "r", "u", "e">>}
C7_CancelledByDefault ==
  (Msg("warn_overwrite", <<>>) \in log /\ userInput \notin ExplicitConfirmations) =>
     /\ pc = "done"
     /\ OldFile \in DOMAIN disk

\* C7 (amended): an existing destination is removed when the answer, trimmed and
\* lower-cased, is empty (the default), "y", "yes" or "true", and then it is
\* recreated empty; any other answer cancels the run with nothing removed,
\* created or written.  Without an existing destination nothing is asked.
C7_ConfirmationDecides ==
  /\ (Msg("warn_overwrite", <<>>) \in log /\
      userInput \in {<<>>, <<"y">>, <<"y", "e", "s">>, <<"t", "r", "u", "e">>}) =>
        /\ OldFile \notin DOMAIN disk
        /\ output_dir \in dirs
        /\ Msg("cancelled", <<>>) \notin log
  /\ (Msg("warn_overwrite", <<>>) \in log /\
      userInput \notin {<<>>, <<"y">>, <<"y", "e", "s">>, <<"t", "r", "u", "e">>}) =>
        /\ pc = "done"
        /\ disk = [p \in {OldFile} |-> <<"x", "LF">>]
        /\ dirs = {output_dir}
        /\ line_num = 0
        /\ Msg("cancelled", <<>>) \in log
  /\ Msg("warn_overwrite", <<>>) \notin log => userInput = <<>>

\* C7 witness: the empty answer let the removal go on
C7_Witness ==
  /\ Msg("warn_overwrite", <<>>) \in log
  /\ userInput = <<>>
  /\ pc = "scan"
  /\ OldFile \notin DOMAIN disk
  /\ output_dir \in dirs

\* C9: a file is written only when a fence closes a block in InContent;
\* InContent is entered only from AwaitingFenceOpen, by an opening fence, with a
\* pending path; a fence met in AwaitingMarker only toggles inside_code_block;
\* and every block that closes leaves the scanner in AwaitingMarker with no
\* pending path and an empty buffer.  (A line toggles inside_code_block exactly
\* when it is a fence line.)
C9_FencesAndStates ==
  [][ (pc = "scan" /\ pc' = "scan") =>
        /\ (disk' # disk \/ dirs' # dirs) =>
              (state = 2 /\ inside_code_block /\ ~inside_code_block' /\ state' = 0)
        /\ (state' = 2 /\ state # 2) =>
              /\ state = 1 /\ ~inside_code_block /\ inside_code_block'
              /\ current_file_path # <<>> /\ current_file_path' = current_file_path
              /\ content_buffer' = <<>>
        /\ (state = 0 /\ inside_code_block' # inside_code_block) =>
              /\ state' = 0
              /\ disk' = disk /\ dirs' = dirs
              /\ content_buffer' = content_buffer
              /\ current_file_path' = current_file_path
        /\ (content_buffer' # content_buffer /\ content_buffer' # <<>>) => state = 2
        /\ (state = 2 /\ state' # 2) =>
              /\ state' = 0 /\ inside_code_block /\ ~inside_code_block'
              /\ current_file_path' = <<>> /\ content_buffer' = <<>>
    ]_vars

\* C9 witness: after "a" was restored, a fence was met in AwaitingMarker
C9_Witness ==
  /\ pc = "scan"
  /\ state = 0
  /\ inside_code_block
  /\ current_file_path = <<>>
  /\ Restored(<<"a">>) \in DOMAIN disk
  /\ disk[Restored(<<"a">>)] = <<"x", "LF">>

\* C12: after any sequence of lines, state 2 (inside a content block) implies
\* inside_code_block; a pending path is set exactly when the state is 1 (the
\* opening fence is awaited) or 2; and content_buffer is empty whenever the
\* state is not 2, so that a record starts with no payload line of another.
C12_ScannerInvariant ==
  /\ state \in {0, 1, 2}
  /\ state = 2 => inside_code_block
  /\ (current_file_path # <<>>) <=> (state \in {1, 2})
  /\ Len(current_file_path) <= 1
  /\ state # 2 => content_buffer = <<>>

\* C12 witness: the record of "a" was written with its payload, and the marker
\* of "a/b" was read: its opening fence is awaited with an empty buffer
C12_Witness ==
  /\ pc = "scan"
  /\ state = 1
  /\ ~inside_code_block
  /\ current_file_path = << Path(<<"a", "/", "b">>) >>
  /\ content_buffer = <<>>
  /\ Restored(<<"a">>) \in DOMAIN disk
  /\ disk[Restored(<<"a">>)] = <<"x", "LF">>

====
